---------------------------- MODULE Spec2Model ----------------------------
(***************************************************************************)
(* A model of scripts/getfw.py: the firmware catalogue (sources), the      *)
(* gather phase, the patch phase and the output tree they work on.         *)
(*                                                                         *)
(* Text is modelled as a sequence of one-character strings, so that        *)
(* str.startswith, str.replace and the path operators of pathlib are       *)
(* computed character by character.  A path is the text of the path, with  *)
(* "/" between its components.                                             *)
(*                                                                         *)
(* The script is run as an ordinary user with well-formed arguments: the   *)
(* privilege check and the argument parser of main are not modelled.  Of   *)
(* what the script prints, the model keeps the lines of main and the       *)
(* names of the sources and patches (the variable log), not the line       *)
(* printed for each file.  The external tools are known by the arguments   *)
(* they are called with: pil-splitter is taken to write <prefix>.mdt, the  *)
(* board encoder the file given with -o, the firmware encoder the image    *)
(* it is given.                                                            *)
(***************************************************************************)
EXTENDS Integers, Sequences, FiniteSets, TLC

VARIABLES pc, bad, wdsfr, fs, i, item, run, err, log, tools, base, arg, ret

vars == <<pc, bad, wdsfr, fs, i, item, run, err, log, tools, base, arg, ret>>

(***************************************************************************)
(* Bounds of the model                                                     *)
(***************************************************************************)
\* runs of the script against the same output directory
MaxRuns == 2
\* children of the repository root in the resolution check
MaxChildren == 3
\* characters of a name in the resolution check
MaxNameLen == 2
\* entries of a file map in the normalisation check
MaxFiles == 3
\* alternate names already taken when the symlink patch is applied
MaxLeftovers == 2

(***************************************************************************)
(* Text                                                                    *)
(***************************************************************************)
\* Python's None, kept apart from every text (a text holds characters only)
None == <<"None">>

\* str.startswith
startswith(s, pfx) ==
    /\ Len(pfx) <= Len(s)
    /\ SubSeq(s, 1, Len(pfx)) = pfx

\* str.replace(old, new): every non-overlapping occurrence, left to right
RECURSIVE replace(_, _, _)
replace(s, old, new) ==
    IF Len(s) < Len(old) \/ old = <<>> THEN s
    ELSE IF SubSeq(s, 1, Len(old)) = old
         THEN new \o replace(SubSeq(s, Len(old) + 1, Len(s)), old, new)
         ELSE <<Head(s)>> \o replace(Tail(s), old, new)

(***************************************************************************)
(* Paths (pathlib.Path)                                                    *)
(***************************************************************************)
\* Path.__truediv__: a / b
Join(a, b) == a \o <<"/">> \o b

\* str.rfind("/") within the first k characters (0: none)
RECURSIVE rfind(_, _)
rfind(p, k) ==
    IF k = 0 THEN 0 ELSE IF p[k] = "/" THEN k ELSE rfind(p, k - 1)

\* Path.parent
Parent(p) ==
    LET k == rfind(p, Len(p))
    IN  IF k = 0 THEN <<".">> ELSE SubSeq(p, 1, k - 1)

\* Path.name
Name(p) == SubSeq(p, rfind(p, Len(p)) + 1, Len(p))

\* the path and all its ancestors below the working directory
RECURSIVE Ancestors(_)
Ancestors(p) ==
    IF rfind(p, Len(p)) = 0 THEN {p} ELSE {p} \cup Ancestors(Parent(p))

\* p lies below directory d
IsUnder(p, d) ==
    /\ Len(p) > Len(d) + 1
    /\ SubSeq(p, 1, Len(d) + 1) = d \o <<"/">>

(***************************************************************************)
(* The output tree.  fs.dirs is the set of directories, fs.files maps the  *)
(* path of each regular file to its content, fs.links maps the path of     *)
(* each symbolic link to the text it points to.                            *)
(***************************************************************************)
EmptyMap == [p \in {} |-> None]

EmptyTree == [dirs |-> {}, files |-> EmptyMap, links |-> EmptyMap]

Exists(f, p) == p \in f.dirs \/ p \in DOMAIN f.files \/ p \in DOMAIN f.links

Without(m, ps) == [p \in DOMAIN m \ ps |-> m[p]]

\* the outcome of a file operation: the tree it leaves, and the class of
\* the exception it raised ("" when it returned)
Returns(f) == [ok |-> TRUE, fs |-> f, exc |-> ""]

Raises(f, class) == [ok |-> FALSE, fs |-> f, exc |-> class]

\* the bytes found now at a place of the vendor repository or of a file
\* server; what an earlier run of the script wrote is marked as of "earlier"
SourceContent(src) == [origin |-> src, of |-> "this run", form |-> "exact"]

\* the tree as the next run of the script finds it
Aged(f) ==
    [f EXCEPT !.files = [p \in DOMAIN @ |-> [@[p] EXCEPT !.of = "earlier"]]]

\* a slip: mkdir without exist_ok
mkdir_strict(f, d) ==
    IF Exists(f, d) THEN Raises(f, "FileExistsError")
    ELSE Returns([f EXCEPT !.dirs = @ \cup Ancestors(d)])

\* Path.mkdir(parents=True, exist_ok=True)
mkdir(f, d) ==
    LET inTheWay == {a \in Ancestors(d) : a \in DOMAIN f.files \/ a \in DOMAIN f.links}
    IN  IF inTheWay = {} THEN Returns([f EXCEPT !.dirs = @ \cup Ancestors(d)])
        ELSE IF d \in inTheWay THEN Raises(f, "FileExistsError")
        ELSE Raises(f, "NotADirectoryError")

\* open(p, "wb") and write: through a link at p, never onto a directory
write(f, p, c) ==
    LET q == IF p \in DOMAIN f.links THEN Join(Parent(p), f.links[p]) ELSE p
    IN  IF q \in f.dirs THEN Raises(f, "IsADirectoryError")
        ELSE IF Parent(q) \notin f.dirs THEN Raises(f, "FileNotFoundError")
        ELSE Returns([f EXCEPT !.files = (q :> c) @@ @])

\* shutil.copy(src, dst) of a readable source with content c and name n:
\* into dst when dst is a directory, else onto dst
copy(f, c, n, dst) ==
    write(f, IF dst \in f.dirs THEN Join(dst, n) ELSE dst, c)

\* shutil.rmtree(d)
rmtree(f, d) ==
    IF d \in DOMAIN f.files \/ d \in DOMAIN f.links THEN Raises(f, "NotADirectoryError")
    ELSE IF d \notin f.dirs THEN Raises(f, "FileNotFoundError")
    ELSE Returns([dirs  |-> {p \in f.dirs : p # d /\ ~IsUnder(p, d)},
                  files |-> Without(f.files, {p \in DOMAIN f.files : IsUnder(p, d)}),
                  links |-> Without(f.links, {p \in DOMAIN f.links : IsUnder(p, d)})])

\* Path.unlink(missing_ok=True)
unlink(f, p) ==
    IF p \in f.dirs THEN Raises(f, "IsADirectoryError")
    ELSE Returns([f EXCEPT !.files = Without(@, {p}), !.links = Without(@, {p})])

\* Path.symlink_to(target)
symlink_to(f, p, target) ==
    IF Exists(f, p) THEN Raises(f, "FileExistsError")
    ELSE IF Parent(p) \notin f.dirs THEN Raises(f, "FileNotFoundError")
    ELSE Returns([f EXCEPT !.links = (p :> target) @@ @])

(***************************************************************************)
(* Module constants (lines 15-25)                                          *)
(***************************************************************************)
ATH10K_BOARD_FILE == <<"b","d","w","l","a","n",".","b","5","8">>

ATH10K_BOARD_NAME == <<"b","u","s","=","s","n","o","c",",","q","m","i","-","b","o","a","r","d","-","i","d","=","f","f",",","q","m","i","-","c","h","i","p","-","i","d","=","3","0","2","2","4">>

PATH_PLATFORM == <<"m","s","f","t","/","s","u","r","f","a","c","e","/","p","r","o","-","x","-","s","q","2">>

PATH_VENUS == <<"v","e","n","u","s","-","5",".","2">>

PATH_WDSFR == <<"W","i","n","d","o","w","s","/","S","y","s","t","e","m","3","2","/","D","r","i","v","e","r","S","t","o","r","e","/","F","i","l","e","R","e","p","o","s","i","t","o","r","y">>

URL_AARCH64_FIRMWARE_REPO == <<"h","t","t","p","s",":","/","/","r","a","w",".","g","i","t","h","u","b","u","s","e","r","c","o","n","t","e","n","t",".","c","o","m","/","l","i","n","u","x","-","s","u","r","f","a","c","e","/","a","a","r","c","h","6","4","-","f","i","r","m","w","a","r","e","/","m","a","i","n","/","f","i","r","m","w","a","r","e">>

URL_LINUX_FIRMWARE_REPO == <<"h","t","t","p","s",":","/","/","g","i","t",".","k","e","r","n","e","l",".","o","r","g","/","p","u","b","/","s","c","m","/","l","i","n","u","x","/","k","e","r","n","e","l","/","g","i","t","/","f","i","r","m","w","a","r","e","/","l","i","n","u","x","-","f","i","r","m","w","a","r","e",".","g","i","t","/","p","l","a","i","n">>

\* args.path_out: Path(cli_args.output), the default of --output
path_out == <<"o","u","t">>

\* args.path_wdsfr: Path(cli_args.windows) / PATH_WDSFR, for --windows "."
path_wdsfr == PATH_WDSFR

(***************************************************************************)
(* Python values handed to Firmware._filemap: the type isinstance sees,    *)
(* and the items.  A dict is the sequence of its (key, value) pairs in     *)
(* insertion order, its keys distinct.                                     *)
(***************************************************************************)
PyList(items) == [type |-> "list", val |-> items]

PyDict(pairs) == [type |-> "dict", val |-> pairs]

PyNone == [type |-> "NoneType", val |-> <<>>]

\* a raised exception of the class, in the place of a returned value
PyRaise(class) == [type |-> "raise", val |-> <<class>>]

keys(pairs) == {pairs[k][1] : k \in 1..Len(pairs)}

\* d[k] = v on the pairs of a dict: replaces the value of a key it holds,
\* else appends
setitem(pairs, k, v) ==
    IF k \in keys(pairs)
    THEN [j \in 1..Len(pairs) |-> IF pairs[j][1] = k THEN <<k, v>> ELSE pairs[j]]
    ELSE Append(pairs, <<k, v>>)

\* {x: x for x in files}
RECURSIVE identity_dict(_, _)
identity_dict(items, pairs) ==
    IF items = <<>> THEN pairs
    ELSE identity_dict(Tail(items), setitem(pairs, Head(items), Head(items)))

\* a slip: a dict is rebuilt from its keys, like a list
_filemap_keys(files) ==
    IF files.type \in {"list", "dict"}
    THEN PyDict(identity_dict([k \in 1..Len(files.val) |->
                                  IF files.type = "dict" THEN files.val[k][1]
                                  ELSE files.val[k]], <<>>))
    ELSE PyRaise("Exception")

\* Firmware._filemap
_filemap(files) ==
    IF files.type = "list" THEN PyDict(identity_dict(files.val, <<>>))
    ELSE IF files.type = "dict" THEN files
    ELSE PyRaise("Exception")

(***************************************************************************)
(* The catalogue as declared (lines 217-323)                               *)
(***************************************************************************)
\* line 219
Decl1 ==
    [cls |-> "DownloadFirmware", name |-> "pd-maps",
     target_directory |-> Join(<<"q","c","o","m">>, PATH_PLATFORM),
     source |-> Join(URL_AARCH64_FIRMWARE_REPO, Join(<<"q","c","o","m">>, PATH_PLATFORM)),
     files |-> PyList(<<
        <<"a","d","s","p","r",".","j","s","n">>,
        <<"a","d","s","p","u","a",".","j","s","n">>,
        <<"c","d","s","p","r",".","j","s","n">>,
        <<"c","h","a","r","g","e","r",".","j","s","n">>,
        <<"m","o","d","e","m","r",".","j","s","n">>,
        <<"m","o","d","e","m","u","w",".","j","s","n">>>>)]

\* line 229
Decl2 ==
    [cls |-> "WindowsDriverFirmware", name |-> "bluetooth",
     target_directory |-> <<"q","c","a">>,
     source |-> <<"q","c","b","t","f","m","u","a","r","t","8","1","8","0">>,
     files |-> PyList(<<
        <<"c","r","b","t","f","w","2","1",".","t","l","v">>,
        <<"c","r","n","v","2","1",".","b","3","c">>,
        <<"c","r","n","v","2","1",".","b","4","4">>,
        <<"c","r","n","v","2","1",".","b","4","5">>,
        <<"c","r","n","v","2","1",".","b","4","6">>,
        <<"c","r","n","v","2","1",".","b","4","7">>,
        <<"c","r","n","v","2","1",".","b","7","1">>,
        <<"c","r","n","v","2","1",".","b","i","n">>>>)]

\* line 241
Decl3 ==
    [cls |-> "DownloadFirmware", name |-> "gpu/base",
     target_directory |-> <<"q","c","o","m">>,
     source |-> Join(URL_AARCH64_FIRMWARE_REPO, <<"q","c","o","m">>),
     files |-> PyList(<<
        <<"a","6","8","0","_","g","m","u",".","b","i","n">>,
        <<"a","6","8","0","_","s","q","e",".","f","w">>>>)]

\* line 245
Decl4 ==
    [cls |-> "WindowsDriverFirmware", name |-> "gpu/vendor",
     target_directory |-> Join(<<"q","c","o","m">>, PATH_PLATFORM),
     source |-> <<"q","c","d","x","8","1","8","0">>,
     files |-> PyList(<<
        <<"q","c","d","x","k","m","s","u","c","8","1","8","0",".","m","b","n">>,
        <<"q","c","v","s","s","8","1","8","0",".","m","b","n">>>>)]

\* line 251
Decl5 ==
    [cls |-> "WindowsDriverFirmware", name |-> "wlan/vendor",
     target_directory |-> Join(<<"q","c","o","m">>, PATH_PLATFORM),
     source |-> <<"q","c","w","l","a","n","8","1","8","0">>,
     files |-> PyList(<<
        <<"w","l","a","n","m","d","s","p",".","m","b","n">>>>)]

\* line 254
Decl6 ==
    [cls |-> "WindowsDriverFirmware", name |-> "wlan/ath10k/board",
     target_directory |-> <<"a","t","h","1","0","k","/","W","C","N","3","9","9","0","/","h","w","1",".","0","/","b","o","a","r","d","s">>,
     source |-> <<"q","c","w","l","a","n","8","1","8","0">>,
     files |-> PyList(<<
        <<"b","d","w","l","a","n",".","b","5","f">>,
        <<"b","d","w","l","a","n",".","b","3","6">>,
        <<"b","d","w","l","a","n",".","b","3","7">>,
        <<"b","d","w","l","a","n",".","b","4","6">>,
        <<"b","d","w","l","a","n",".","b","4","7">>,
        <<"b","d","w","l","a","n",".","b","4","8">>,
        <<"b","d","w","l","a","n",".","b","5","8">>,
        <<"b","d","w","l","a","n",".","b","7","1">>,
        <<"b","d","w","l","a","n",".","b","i","n">>,
        <<"b","d","w","l","a","n","u",".","b","5","f">>,
        <<"b","d","w","l","a","n","u",".","b","5","8">>>>)]

\* line 267
Decl7 ==
    [cls |-> "DownloadFirmware", name |-> "wlan/ath10k/firmware-5",
     target_directory |-> <<"a","t","h","1","0","k","/","W","C","N","3","9","9","0","/","h","w","1",".","0">>,
     source |-> Join(URL_LINUX_FIRMWARE_REPO, <<"a","t","h","1","0","k","/","W","C","N","3","9","9","0","/","h","w","1",".","0">>),
     files |-> PyList(<<
        <<"f","i","r","m","w","a","r","e","-","5",".","b","i","n">>>>)]

\* line 272
Decl8 ==
    [cls |-> "WindowsDriverFirmware", name |-> "mcfg",
     target_directory |-> Join(<<"q","c","o","m">>, PATH_PLATFORM),
     source |-> <<"s","u","r","f","a","c","e","p","r","o","x","_","m","c","f","g">>,
     files |-> PyDict(<<
        <<<<"M","C","F","G","/","M","C","F","G",".","1">>,
          <<"m","o","d","e","m","_","p","r","/","m","c","f","g","/","c","o","n","f","i","g","s","/","m","c","f","g","_","s","w","/","o","e","m","_","s","w",".","t","x","t">>>>,
        <<<<"M","C","F","G","/","M","C","F","G",".","2">>,
          <<"m","o","d","e","m","_","p","r","/","m","c","f","g","/","c","o","n","f","i","g","s","/","m","c","f","g","_","s","w","/","m","b","n","_","s","w",".","t","x","t">>>>,
        <<<<"M","C","F","G","/","M","C","F","G",".","3">>,
          <<"m","o","d","e","m","_","p","r","/","m","c","f","g","/","c","o","n","f","i","g","s","/","m","c","f","g","_","s","w","/","m","b","n","_","s","w",".","d","i","g">>>>,
        <<<<"M","C","F","G","/","M","C","F","G",".","4">>,
          <<"m","o","d","e","m","_","p","r","/","m","c","f","g","/","c","o","n","f","i","g","s","/","m","c","f","g","_","s","w","/","g","e","n","e","r","i","c","/","A","P","A","C","/","D","C","M","/","C","o","m","m","e","r","c","i","a","l","/","m","c","f","g","_","s","w",".","m","b","n">>>>,
        <<<<"M","C","F","G","/","M","C","F","G",".","5">>,
          <<"m","o","d","e","m","_","p","r","/","m","c","f","g","/","c","o","n","f","i","g","s","/","m","c","f","g","_","s","w","/","g","e","n","e","r","i","c","/","A","P","A","C","/","S","B","M","/","C","o","m","m","e","r","c","i","a","l","/","m","c","f","g","_","s","w",".","m","b","n">>>>,
        <<<<"M","C","F","G","/","M","C","F","G",".","6">>,
          <<"m","o","d","e","m","_","p","r","/","m","c","f","g","/","c","o","n","f","i","g","s","/","m","c","f","g","_","s","w","/","g","e","n","e","r","i","c","/","c","o","m","m","o","n","/","R","O","W","/","C","o","m","m","e","r","c","i","a","l","/","m","c","f","g","_","s","w",".","m","b","n">>>>,
        <<<<"M","C","F","G","/","M","C","F","G",".","7">>,
          <<"m","o","d","e","m","_","p","r","/","m","c","f","g","/","c","o","n","f","i","g","s","/","m","c","f","g","_","s","w","/","g","e","n","e","r","i","c","/","M","i","c","r","o","s","o","f","t","/","C","a","m","b","r","i","a","/","S","W","/","C","M","C","C","/","C","o","m","m","e","r","c","i","a","l","/","M","S","F","T","_","O","p","e","n","M","k","t","/","m","c","f","g","_","s","w",".","m","b","n">>>>,
        <<<<"M","C","F","G","/","M","C","F","G",".","8">>,
          <<"m","o","d","e","m","_","p","r","/","m","c","f","g","/","c","o","n","f","i","g","s","/","m","c","f","g","_","s","w","/","g","e","n","e","r","i","c","/","M","i","c","r","o","s","o","f","t","/","C","a","m","b","r","i","a","/","S","W","/","C","T","/","C","o","m","m","e","r","c","i","a","l","/","M","S","F","T","_","O","p","e","n","M","k","t","/","m","c","f","g","_","s","w",".","m","b","n">>>>,
        <<<<"M","C","F","G","/","M","C","F","G",".","9">>,
          <<"m","o","d","e","m","_","p","r","/","m","c","f","g","/","c","o","n","f","i","g","s","/","m","c","f","g","_","s","w","/","g","e","n","e","r","i","c","/","M","i","c","r","o","s","o","f","t","/","C","a","m","b","r","i","a","/","S","W","/","C","U","/","C","o","m","m","e","r","c","i","a","l","/","M","S","F","T","_","O","p","e","n","M","k","t","/","m","c","f","g","_","s","w",".","m","b","n">>>>,
        <<<<"M","C","F","G","/","M","C","F","G",".","1","0">>,
          <<"m","o","d","e","m","_","p","r","/","m","c","f","g","/","c","o","n","f","i","g","s","/","m","c","f","g","_","s","w","/","g","e","n","e","r","i","c","/","M","i","c","r","o","s","o","f","t","/","C","a","m","b","r","i","a","/","S","W","/","G","I","G","S","K","Y","/","C","o","m","m","e","r","c","i","a","l","/","m","c","f","g","_","s","w",".","m","b","n">>>>,
        <<<<"M","C","F","G","/","M","C","F","G",".","1","1">>,
          <<"m","o","d","e","m","_","p","r","/","m","c","f","g","/","c","o","n","f","i","g","s","/","m","c","f","g","_","s","w","/","g","e","n","e","r","i","c","/","M","i","c","r","o","s","o","f","t","/","C","a","m","b","r","i","a","/","S","W","/","m","t","e","/","f","a","c","t","o","r","y","/","m","c","f","g","_","s","w",".","m","b","n">>>>,
        <<<<"M","C","F","G","/","M","C","F","G",".","1","2">>,
          <<"m","o","d","e","m","_","p","r","/","m","c","f","g","/","c","o","n","f","i","g","s","/","m","c","f","g","_","s","w","/","g","e","n","e","r","i","c","/","M","i","c","r","o","s","o","f","t","/","C","a","m","b","r","i","a","/","S","W","/","r","e","l","/","s","c","8","1","8","0","x",".","g","e","n",".","p","r","o","d","/","c","o","m","m","o","n","/","m","c","f","g","_","s","w",".","m","b","n">>>>,
        <<<<"M","C","F","G","/","M","C","F","G",".","1","3">>,
          <<"m","o","d","e","m","_","p","r","/","m","c","f","g","/","c","o","n","f","i","g","s","/","m","c","f","g","_","s","w","/","g","e","n","e","r","i","c","/","N","A","/","A","T","T","/","F","i","r","s","t","N","e","t","/","m","c","f","g","_","s","w",".","m","b","n">>>>,
        <<<<"M","C","F","G","/","M","C","F","G",".","1","4">>,
          <<"m","o","d","e","m","_","p","r","/","m","c","f","g","/","c","o","n","f","i","g","s","/","m","c","f","g","_","s","w","/","g","e","n","e","r","i","c","/","N","A","/","A","T","T","/","N","o","n","_","V","o","L","T","E","/","m","c","f","g","_","s","w",".","m","b","n">>>>,
        <<<<"M","C","F","G","/","M","C","F","G",".","1","5">>,
          <<"m","o","d","e","m","_","p","r","/","m","c","f","g","/","c","o","n","f","i","g","s","/","m","c","f","g","_","s","w","/","g","e","n","e","r","i","c","/","N","A","/","V","e","r","i","z","o","n","/","C","D","M","A","l","e","s","s","/","m","c","f","g","_","s","w",".","m","b","n">>>>,
        <<<<"M","C","F","G","/","M","C","F","G",".","1","6">>,
          <<"m","o","d","e","m","_","p","r","/","m","c","f","g","/","c","o","n","f","i","g","s","/","m","c","f","g","_","h","w","/","m","b","n","_","h","w",".","t","x","t">>>>,
        <<<<"M","C","F","G","/","M","C","F","G",".","1","7">>,
          <<"m","o","d","e","m","_","p","r","/","m","c","f","g","/","c","o","n","f","i","g","s","/","m","c","f","g","_","h","w","/","m","b","n","_","h","w",".","d","i","g">>>>,
        <<<<"M","C","F","G","/","M","C","F","G",".","1","8">>,
          <<"m","o","d","e","m","_","p","r","/","m","c","f","g","/","c","o","n","f","i","g","s","/","m","c","f","g","_","h","w","/","g","e","n","e","r","i","c","/","c","o","m","m","o","n","/","S","C","8","1","8","0","X","/","c","m","c","c","_","s","u","b","s","i","d","i","z","e","d","/","S","R","_","D","S","D","S","/","m","c","f","g","_","h","w",".","m","b","n">>>>,
        <<<<"M","C","F","G","/","M","C","F","G",".","1","9">>,
          <<"m","o","d","e","m","_","p","r","/","m","c","f","g","/","c","o","n","f","i","g","s","/","m","c","f","g","_","h","w","/","g","e","n","e","r","i","c","/","c","o","m","m","o","n","/","S","C","8","1","8","0","X","/","L","A","/","7","+","7","_","m","o","d","e","/","S","R","_","D","S","D","S","/","m","c","f","g","_","h","w",".","m","b","n">>>>,
        <<<<"M","C","F","G","/","M","C","F","G",".","2","0">>,
          <<"m","o","d","e","m","_","p","r","/","m","c","f","g","/","c","o","n","f","i","g","s","/","m","c","f","g","_","h","w","/","g","e","n","e","r","i","c","/","c","o","m","m","o","n","/","S","C","8","1","8","0","X","/","L","A","/","D","S","D","S","/","m","c","f","g","_","h","w",".","m","b","n">>>>,
        <<<<"M","C","F","G","/","M","C","F","G",".","2","1">>,
          <<"m","o","d","e","m","_","p","r","/","m","c","f","g","/","c","o","n","f","i","g","s","/","m","c","f","g","_","h","w","/","g","e","n","e","r","i","c","/","c","o","m","m","o","n","/","S","C","8","1","8","0","X","/","L","A","/","S","S","/","m","c","f","g","_","h","w",".","m","b","n">>>>,
        <<<<"M","C","F","G","/","M","C","F","G",".","2","2">>,
          <<"m","o","d","e","m","_","p","r","/","m","c","f","g","/","c","o","n","f","i","g","s","/","m","c","f","g","_","h","w","/","g","e","n","e","r","i","c","/","c","o","m","m","o","n","/","S","C","8","1","8","0","X","/","W","D","/","7","+","7","_","m","o","d","e","/","S","R","_","D","S","D","S","/","m","c","f","g","_","h","w",".","m","b","n">>>>,
        <<<<"M","C","F","G","/","M","C","F","G",".","2","3">>,
          <<"m","o","d","e","m","_","p","r","/","m","c","f","g","/","c","o","n","f","i","g","s","/","m","c","f","g","_","h","w","/","g","e","n","e","r","i","c","/","c","o","m","m","o","n","/","S","C","8","1","8","0","X","/","W","D","/","D","S","S","A","/","m","c","f","g","_","h","w",".","m","b","n">>>>,
        <<<<"M","C","F","G","/","M","C","F","G",".","2","4">>,
          <<"m","o","d","e","m","_","p","r","/","m","c","f","g","/","c","o","n","f","i","g","s","/","m","c","f","g","_","h","w","/","g","e","n","e","r","i","c","/","c","o","m","m","o","n","/","S","C","8","1","8","0","X","/","W","D","/","S","S","/","m","c","f","g","_","h","w",".","m","b","n">>>>,
        <<<<"M","C","F","G","/","M","C","F","G",".","2","5">>,
          <<"m","o","d","e","m","_","p","r","/","m","c","f","g","/","c","o","n","f","i","g","s","/","m","c","f","g","_","h","w","/","g","e","n","e","r","i","c","/","c","o","m","m","o","n","/","S","C","8","1","8","0","X","/","W","P","8","/","7","+","7","_","m","o","d","e","/","S","R","_","D","S","D","S","/","m","c","f","g","_","h","w",".","m","b","n">>>>,
        <<<<"M","C","F","G","/","M","C","F","G",".","2","6">>,
          <<"m","o","d","e","m","_","p","r","/","m","c","f","g","/","c","o","n","f","i","g","s","/","m","c","f","g","_","h","w","/","g","e","n","e","r","i","c","/","c","o","m","m","o","n","/","S","C","8","1","8","0","X","/","W","P","8","/","S","S","/","m","c","f","g","_","h","w",".","m","b","n">>>>,
        <<<<"M","C","F","G","/","M","C","F","G",".","2","7">>,
          <<"m","o","d","e","m","_","p","r","/","m","c","f","g","/","c","o","n","f","i","g","s","/","m","c","f","g","_","h","w","/","g","e","n","e","r","i","c","/","M","i","c","r","o","s","o","f","t","/","C","a","m","b","r","i","a","/","h","w","/","m","t","e","/","f","a","c","t","o","r","y","/","m","c","f","g","_","h","w",".","m","b","n">>>>,
        <<<<"M","C","F","G","/","M","C","F","G",".","2","8">>,
          <<"m","o","d","e","m","_","p","r","/","m","c","f","g","/","c","o","n","f","i","g","s","/","m","c","f","g","_","h","w","/","g","e","n","e","r","i","c","/","M","i","c","r","o","s","o","f","t","/","C","a","m","b","r","i","a","/","h","w","/","r","e","l","/","s","c","8","1","8","0","x",".","g","e","n",".","p","r","o","d","/","c","o","m","m","o","n","/","m","c","f","g","_","h","w",".","m","b","n">>>>>>)]

\* line 304
Decl9 ==
    [cls |-> "WindowsDriverFirmware", name |-> "adsp/vendor",
     target_directory |-> Join(<<"q","c","o","m">>, PATH_PLATFORM),
     source |-> <<"s","u","r","f","a","c","e","p","r","o","x","_","s","u","b","e","x","t","a","d","s","p">>,
     files |-> PyList(<<
        <<"q","c","a","d","s","p","8","1","8","0",".","m","b","n">>>>)]

\* line 310
Decl10 ==
    [cls |-> "WindowsDriverFirmware", name |-> "cdsp/vendor",
     target_directory |-> Join(<<"q","c","o","m">>, PATH_PLATFORM),
     source |-> <<"s","u","r","f","a","c","e","p","r","o","x","_","s","u","b","e","x","t","c","d","s","p">>,
     files |-> PyList(<<
        <<"q","c","c","d","s","p","8","1","8","0",".","m","b","n">>>>)]

\* line 316
Decl11 ==
    [cls |-> "WindowsDriverFirmware", name |-> "mpss/vendor",
     target_directory |-> Join(<<"q","c","o","m">>, PATH_PLATFORM),
     source |-> <<"s","u","r","f","a","c","e","p","r","o","x","_","s","u","b","e","x","t","m","p","s","s">>,
     files |-> PyList(<<
        <<"q","c","m","p","s","s","8","1","8","0",".","m","b","n">>,
        <<"q","c","m","p","s","s","8","1","8","0","_","n","m",".","m","b","n">>>>)]

\* line 320
Decl12 ==
    [cls |-> "WindowsDriverFirmware", name |-> "mpss/library",
     target_directory |-> Join(<<"q","c","o","m">>, PATH_PLATFORM),
     source |-> <<"s","u","r","f","a","c","e","p","r","o","x","_","s","u","b","e","x","t","m","p","s","s">>,
     files |-> PyList(<<
        <<"q","d","s","p","6","m",".","q","d","b">>>>)]

Declared ==
    <<Decl1, Decl2, Decl3, Decl4, Decl5, Decl6, Decl7, Decl8, Decl9, Decl10,
      Decl11, Decl12>>

\* the catalogue with the file map of entry b replaced by a value that is
\* neither a list nor a dict (b = 0: the catalogue as declared)
Declaration(b) ==
    [j \in 1..Len(Declared) |->
        IF j = b THEN [Declared[j] EXCEPT !.files = PyNone] ELSE Declared[j]]

\* WindowsDriverFirmware.__init__ and DownloadFirmware.__init__
Construct(d) == [d EXCEPT !.files = _filemap(d.files)]

\* the list `sources` of every catalogue, once every entry is constructed
Constructed ==
    [b \in 0..Len(Declared) |->
        [j \in 1..Len(Declared) |-> Construct(Declaration(b)[j])]]

\* the module-level list `sources`
sources(b) == Constructed[b]

\* the entries whose construction raises
Invalid(b) ==
    {j \in 1..Len(Declared) : sources(b)[j].files.type \notin {"dict"}}

\* the module-level list `patches`
patches ==
    <<[name |-> "venus",                 fn |-> "patch_venus_extract"],
      [name |-> "ath10k/board-2.bin",    fn |-> "patch_ath10k_board"],
      [name |-> "ath10k/firmware-5.bin", fn |-> "patch_ath10k_firmware"],
      [name |-> "qca/bt",                fn |-> "patch_qca_bt_symlinks"]>>

(***************************************************************************)
(* Errors: the class of the exception, the line that raised it and the     *)
(* source or patch that was being processed.                               *)
(***************************************************************************)
NoErr == [class |-> "", line |-> 0, at |-> ""]

Error(class, line, at) == [class |-> class, line |-> line, at |-> at]

\* the outcome of a get or of a patch
Done(f) == [fs |-> f, err |-> NoErr]

Fail(f, class, line) == [fs |-> f, err |-> Error(class, line, "")]

(***************************************************************************)
(* WindowsDriverFirmware                                                   *)
(***************************************************************************)
\* Path.iterdir() of the repository root: the children, in the order the
\* directory hands them out
iterdir(children) == [k \in 1..Len(children) |-> Join(path_wdsfr, children[k])]

\* a slip: the last matching child instead of the first
RECURSIVE _find_last(_, _)
_find_last(ps, source_directory) ==
    IF ps = <<>> THEN None
    ELSE LET later == _find_last(Tail(ps), source_directory)
         IN  IF later # None THEN later
             ELSE IF startswith(Name(Head(ps)), source_directory) THEN Head(ps)
             ELSE None

\* WindowsDriverFirmware._find_source_directory: the first child whose name
\* starts with the prefix; falls off the end of the loop, returning None
RECURSIVE _find_source_directory(_, _)
_find_source_directory(ps, source_directory) ==
    IF ps = <<>> THEN None
    ELSE IF startswith(Name(Head(ps)), source_directory) THEN Head(ps)
    ELSE _find_source_directory(Tail(ps), source_directory)

\* one turn of the loop of WindowsDriverFirmware.get, for item j of the
\* file map; present: the source file can be read
copy_item(f, self, b, j, present) ==
    IF b = None THEN Fail(f, "TypeError", 90)
    ELSE
        LET s   == self.files.val[j][1]
            t   == self.files.val[j][2]
            src == Join(b, s)
            tgt == Join(Join(path_out, self.target_directory), t)
            m   == mkdir(f, Parent(tgt))
            c   == copy(m.fs, SourceContent(src), Name(src), tgt)
        IN  IF ~m.ok THEN Fail(m.fs, m.exc, 93)
            ELSE IF ~present THEN Fail(m.fs, "FileNotFoundError", 96)
            ELSE IF ~c.ok THEN Fail(c.fs, c.exc, 96)
            ELSE Done(c.fs)

(***************************************************************************)
(* DownloadFirmware                                                        *)
(***************************************************************************)
\* urllib.request.urlretrieve(src, tgt); how: "ok", "refused" (the request
\* fails, nothing is written) or "short" (the transfer breaks off)
urlretrieve(f, src, tgt, how) ==
    LET w == write(f, tgt, IF how = "short"
                           THEN [SourceContent(src) EXCEPT !.form = "truncated"]
                           ELSE SourceContent(src))
    IN  IF how = "refused" THEN Raises(f, "HTTPError")
        ELSE IF ~w.ok THEN w
        ELSE IF how = "short" THEN Raises(w.fs, "ContentTooShortError")
        ELSE w

\* one turn of the loop of DownloadFirmware.get, for item j of the file map
download_item(f, self, j, how) ==
    LET s   == self.files.val[j][1]
        t   == self.files.val[j][2]
        src == Join(self.source, s)
        tgt == Join(Join(path_out, self.target_directory), t)
        m   == mkdir(f, Parent(tgt))
        u   == urlretrieve(m.fs, src, tgt, how)
    IN  IF ~m.ok THEN Fail(m.fs, m.exc, 113)
        ELSE IF ~u.ok THEN Fail(u.fs, u.exc, 116)
        ELSE Done(u.fs)

\* one turn of the loop of src.get, dispatched on the class of the source
get_item(f, self, b, j, how) ==
    IF self.cls = "WindowsDriverFirmware"
    THEN copy_item(f, self, b, j, how = "ok")
    ELSE download_item(f, self, j, how)

\* the ways the environment can fail item j of a source
Hows(self) ==
    IF self.cls = "WindowsDriverFirmware" THEN {"ok", "missing"}
    ELSE {"ok", "refused", "short"}

(***************************************************************************)
(* Patches.  An external tool is run with subprocess.call, whose return    *)
(* value the script drops: "0" (the tool did its work), "1" (it exited     *)
(* non-zero and wrote nothing) or "OSError" (it could not be started, and  *)
(* subprocess.call raises).                                                *)
(***************************************************************************)
ToolOutcomes == {"0", "1", "OSError"}

\* a file of the output tree can be opened for reading (through a link)
resolve(f, p) == IF p \in DOMAIN f.links THEN Join(Parent(p), f.links[p]) ELSE p

readable(f, p) == resolve(f, p) \in DOMAIN f.files

read(f, p) == f.files[resolve(f, p)]

\* what a tool leaves at `out` when it exits 0 on the readable input `inp`
ToolWrites(f, outcome, inp, out, form) ==
    LET w == write(f, out, [read(f, inp) EXCEPT !.form = form])
    IN  IF outcome = "0" /\ readable(f, inp) /\ w.ok THEN w.fs ELSE f

mbn_venus == Join(Join(Join(path_out, <<"q","c","o","m">>), PATH_PLATFORM), <<"q","c","v","s","s","8","1","8","0",".","m","b","n">>)

dir_venus == Join(Join(path_out, <<"q","c","o","m">>), PATH_VENUS)

\* patch_venus_extract
patch_venus_extract(f, outcome) ==
    LET m == mkdir(f, dir_venus)
        s == ToolWrites(m.fs, outcome, mbn_venus,
                        Join(dir_venus, <<"v","e","n","u","s">>) \o <<".","m","d","t">>, "split")
        c == copy(s, read(s, mbn_venus), Name(mbn_venus), Join(dir_venus, <<"v","e","n","u","s",".","m","b","n">>))
    IN  IF ~m.ok THEN Fail(m.fs, m.exc, 133)
        ELSE IF outcome = "OSError" THEN Fail(m.fs, "OSError", 135)
        ELSE IF ~readable(s, mbn_venus) THEN Fail(s, "FileNotFoundError", 136)
        ELSE IF ~c.ok THEN Fail(c.fs, c.exc, 136)
        ELSE Done(c.fs)

hw1_0 == Join(Join(Join(path_out, <<"a","t","h","1","0","k">>), <<"W","C","N","3","9","9","0">>), <<"h","w","1",".","0">>)

\* a slip: the calibration patch removes the directory above the boards
path_boards_above == hw1_0

path_boards == Join(hw1_0, <<"b","o","a","r","d","s">>)

path_board_out == Join(hw1_0, <<"b","o","a","r","d","-","2",".","b","i","n">>)

\* patch_ath10k_board
patch_ath10k_board(f, outcome) ==
    LET s == ToolWrites(f, outcome, Join(path_boards, ATH10K_BOARD_FILE),
                        path_board_out, "board-2")
        r == rmtree(s, path_boards)
    IN  IF outcome = "OSError" THEN Fail(f, "OSError", 166)
        ELSE IF ~r.ok THEN Fail(r.fs, r.exc, 167)
        ELSE Done(r.fs)

fw5_bin == Join(hw1_0, <<"f","i","r","m","w","a","r","e","-","5",".","b","i","n">>)

\* patch_ath10k_firmware
patch_ath10k_firmware(f, outcome) ==
    IF outcome = "OSError" THEN Fail(f, "OSError", 187)
    ELSE Done(ToolWrites(f, outcome, fw5_bin, fw5_bin, "features"))

base_path == Join(path_out, <<"q","c","a">>)

\* the list `files` of patch_qca_bt_symlinks
bt_files ==
    <<<<"c","r","b","t","f","w","2","1",".","t","l","v">>,
      <<"c","r","n","v","2","1",".","b","3","c">>,
      <<"c","r","n","v","2","1",".","b","4","4">>,
      <<"c","r","n","v","2","1",".","b","4","5">>,
      <<"c","r","n","v","2","1",".","b","4","6">>,
      <<"c","r","n","v","2","1",".","b","4","7">>,
      <<"c","r","n","v","2","1",".","b","7","1">>,
      <<"c","r","n","v","2","1",".","b","i","n">>>>

\* the alternate name of a file: file.replace('21', '01')
alternate(file) == replace(file, <<"2","1">>, <<"0","1">>)

\* a slip: the link is made without removing what is at its name
link_one_keep(f, file) ==
    LET l == symlink_to(f, Join(base_path, alternate(file)), file)
    IN  IF ~l.ok THEN Fail(l.fs, l.exc, 214) ELSE Done(l.fs)

\* one turn of the loop of patch_qca_bt_symlinks
link_one(f, file) ==
    LET link == Join(base_path, alternate(file))
        u    == unlink(f, link)
        l    == symlink_to(u.fs, link, file)
    IN  IF ~u.ok THEN Fail(u.fs, u.exc, 213)
        ELSE IF ~l.ok THEN Fail(l.fs, l.exc, 214)
        ELSE Done(l.fs)

\* the loop of patch_qca_bt_symlinks from file j on
RECURSIVE link_files(_, _)
link_files(f, j) ==
    IF j > Len(bt_files) THEN Done(f)
    ELSE LET o == link_one(f, bt_files[j])
         IN  IF o.err # NoErr THEN o ELSE link_files(o.fs, j + 1)

\* patch_qca_bt_symlinks
patch_qca_bt_symlinks(f) == link_files(f, 1)

\* Patch.apply: self.fn(log, args)
apply(self, f, outcome) ==
    CASE self.fn = "patch_venus_extract"   -> patch_venus_extract(f, outcome)
      [] self.fn = "patch_ath10k_board"    -> patch_ath10k_board(f, outcome)
      [] self.fn = "patch_ath10k_firmware" -> patch_ath10k_firmware(f, outcome)
      [] self.fn = "patch_qca_bt_symlinks" -> patch_qca_bt_symlinks(f)

\* the patches that run an external tool
RunsTool(self) == self.fn # "patch_qca_bt_symlinks"

(***************************************************************************)
(* The vendor repositories the script is pointed at: the names of the      *)
(* children of the repository root, in iteration order.                    *)
(***************************************************************************)
\* every package of the catalogue, once
Complete ==
    <<<<"q","c","b","t","f","m","u","a","r","t","8","1","8","0",".","i","n","f","_","a","r","m","6","4","_","1">>,
      <<"q","c","d","x","8","1","8","0",".","i","n","f","_","a","r","m","6","4","_","1">>,
      <<"q","c","w","l","a","n","8","1","8","0",".","i","n","f","_","a","r","m","6","4","_","1">>,
      <<"s","u","r","f","a","c","e","p","r","o","x","_","m","c","f","g",".","i","n","f","_","a","r","m","6","4","_","1">>,
      <<"s","u","r","f","a","c","e","p","r","o","x","_","s","u","b","e","x","t","a","d","s","p",".","i","n","f","_","a","r","m","6","4","_","1">>,
      <<"s","u","r","f","a","c","e","p","r","o","x","_","s","u","b","e","x","t","c","d","s","p",".","i","n","f","_","a","r","m","6","4","_","1">>,
      <<"s","u","r","f","a","c","e","p","r","o","x","_","s","u","b","e","x","t","m","p","s","s",".","i","n","f","_","a","r","m","6","4","_","1">>>>

\* two versions of the WLAN package, the newer first, and an unrelated one
TwoVersions ==
    <<<<"q","c","w","l","a","n","8","1","8","0",".","i","n","f","_","a","r","m","6","4","_","2">>, <<"n","e","t","r","t","w","l","a","n","e",".","i","n","f","_","a","r","m","6","4","_","1">>>> \o Complete

\* no GPU package
NoGpu == <<Complete[1]>> \o SubSeq(Complete, 3, Len(Complete))

Repositories == {TwoVersions, NoGpu}

(***************************************************************************)
(* The run of the script                                                   *)
(***************************************************************************)
Init ==
    /\ pc = "import"
    /\ bad \in 0..Len(Declared)
    /\ wdsfr \in Repositories
    /\ fs = EmptyTree
    /\ i = 0
    /\ item = 0
    /\ run = 1
    /\ err = NoErr
    /\ log = <<>>
    /\ tools = <<>>
    /\ base = <<>>
    /\ arg = <<>>
    /\ ret = <<>>

\* the module is loaded: `sources` and `patches` are built, then main()
\* starts and announces the gather phase (lines 217-330, 345-362)
Import ==
    /\ pc = "import"
    /\ IF Invalid(bad) = {}
       THEN /\ pc' = "gather"
            /\ i' = 1
            /\ log' = Append(log, "retrieving base firmware files")
            /\ err' = err
       ELSE /\ pc' = "failed"
            /\ err' = Error("Exception", 62,
                            Declared[CHOOSE k \in Invalid(bad) :
                                        \A l \in Invalid(bad) : k <= l].name)
            /\ UNCHANGED <<i, log>>
    /\ UNCHANGED <<bad, wdsfr, fs, item, run, tools, base, arg, ret>>

\* a turn of the loop of gather starts: the name of the source is logged
\* and its get is entered, up to the head of its loop (lines 334-336, 87)
Gather ==
    /\ pc = "gather"
    /\ i <= Len(sources(bad))
    /\ pc' = "get"
    /\ item' = 1
    /\ log' = Append(log, sources(bad)[i].name)
    /\ base' = IF sources(bad)[i].cls = "WindowsDriverFirmware"
               THEN _find_source_directory(iterdir(wdsfr), sources(bad)[i].source)
               ELSE <<>>
    /\ UNCHANGED <<bad, wdsfr, fs, i, run, err, tools, arg, ret>>

\* a slip: gather swallows the failure of a source and goes on with the next one
GetItem_continue ==
    /\ pc = "get"
    /\ item <= Len(sources(bad)[i].files.val)
    /\ \E how \in Hows(sources(bad)[i]) :
         LET o == get_item(fs, sources(bad)[i], base, item, how)
         IN  /\ fs' = o.fs
             /\ IF o.err = NoErr
                THEN /\ item' = item + 1
                     /\ UNCHANGED <<pc, i, err>>
                ELSE /\ pc' = "gather"
                     /\ i' = i + 1
                     /\ err' = [o.err EXCEPT !.at = sources(bad)[i].name]
                     /\ item' = item
    /\ UNCHANGED <<bad, wdsfr, run, log, tools, base, arg, ret>>

\* one turn of the loop of get (lines 89-96, 109-116)
GetItem ==
    /\ pc = "get"
    /\ item <= Len(sources(bad)[i].files.val)
    /\ \E how \in Hows(sources(bad)[i]) :
         LET o == get_item(fs, sources(bad)[i], base, item, how)
         IN  /\ fs' = o.fs
             /\ IF o.err = NoErr
                THEN /\ item' = item + 1
                     /\ UNCHANGED <<pc, err>>
                ELSE /\ pc' = "failed"
                     /\ err' = [o.err EXCEPT !.at = sources(bad)[i].name]
                     /\ item' = item
    /\ UNCHANGED <<bad, wdsfr, i, run, log, tools, base, arg, ret>>

\* get returns to the loop of gather
GetReturn ==
    /\ pc = "get"
    /\ item = Len(sources(bad)[i].files.val) + 1
    /\ pc' = "gather"
    /\ i' = i + 1
    /\ UNCHANGED <<bad, wdsfr, fs, item, run, err, log, tools, base, arg, ret>>

\* a slip: main goes on to the patch phase after a failed gather phase
GatherDone_anyway ==
    /\ \/ pc = "gather" /\ i = Len(sources(bad)) + 1
       \/ pc = "failed" /\ err.line \in 90..116
    /\ pc' = "patch"
    /\ i' = 1
    /\ log' = Append(log, "patching firmware files")
    /\ UNCHANGED <<bad, wdsfr, fs, item, run, err, tools, base, arg, ret>>

\* gather returns and main announces the patch phase (lines 362-365)
GatherDone ==
    /\ pc = "gather"
    /\ i = Len(sources(bad)) + 1
    /\ pc' = "patch"
    /\ i' = 1
    /\ log' = Append(log, "patching firmware files")
    /\ UNCHANGED <<bad, wdsfr, fs, item, run, err, tools, base, arg, ret>>

\* one turn of the loop of patch (lines 340-342)
Patch ==
    /\ pc = "patch"
    /\ i <= Len(patches)
    /\ \E outcome \in ToolOutcomes :
         /\ ~RunsTool(patches[i]) => outcome = "0"
         /\ LET o == apply(patches[i], fs, outcome)
            IN  /\ fs' = o.fs
                /\ log' = Append(log, patches[i].name)
                /\ tools' = IF RunsTool(patches[i]) /\ o.err.line # 133
                            THEN Append(tools, [patch |-> patches[i].name,
                                                outcome |-> outcome])
                            ELSE tools
                /\ IF o.err = NoErr
                   THEN /\ i' = i + 1
                        /\ UNCHANGED <<pc, err>>
                   ELSE /\ pc' = "failed"
                        /\ err' = [o.err EXCEPT !.at = patches[i].name]
                        /\ i' = i
    /\ UNCHANGED <<bad, wdsfr, item, run, base, arg, ret>>

\* patch returns and main reports the end (lines 365-367)
PatchDone ==
    /\ pc = "patch"
    /\ i = Len(patches) + 1
    /\ pc' = "done"
    /\ log' = Append(log, "done!")
    /\ UNCHANGED <<bad, wdsfr, fs, i, item, run, err, tools, base, arg, ret>>

\* the script is started again on the same output directory
Rerun ==
    /\ pc \in {"done", "failed"}
    /\ run < MaxRuns
    /\ run' = run + 1
    /\ fs' = Aged(fs)
    /\ pc' = "import"
    /\ i' = 0
    /\ item' = 0
    /\ err' = NoErr
    /\ log' = <<>>
    /\ tools' = <<>>
    /\ base' = <<>>
    /\ UNCHANGED <<bad, wdsfr, arg, ret>>

Next ==
    \/ Import
    \/ Gather
    \/ GetItem
    \/ GetReturn
    \/ GatherDone
    \/ Patch
    \/ PatchDone
    \/ Rerun

Spec == Init /\ [][Next]_vars

(***************************************************************************)
(* Prefix resolution on its own: every listing of up to MaxChildren        *)
(* distinct children with names of up to MaxNameLen characters, in every   *)
(* iteration order, and every prefix of up to MaxNameLen characters.       *)
(***************************************************************************)
Letters == {"a", "b"}

Texts(n) == UNION {[1..k -> Letters] : k \in 0..n}

Listings ==
    {c \in UNION {[1..k -> Texts(MaxNameLen) \ {<<>>}] : k \in 0..MaxChildren} :
        \A k, l \in 1..Len(c) : k # l => c[k] # c[l]}

Idle ==
    /\ bad = 0
    /\ wdsfr = <<>>
    /\ i = 0
    /\ item = 0
    /\ run = 1
    /\ err = NoErr
    /\ log = <<>>
    /\ tools = <<>>
    /\ base = <<>>

InitResolve ==
    /\ pc = "call"
    /\ arg \in [children : Listings, prefix : Texts(MaxNameLen)]
    /\ ret = <<>>
    /\ fs = EmptyTree
    /\ Idle

\* self._find_source_directory(args) on the listing and the prefix
Resolve ==
    /\ pc = "call"
    /\ pc' = "returned"
    /\ ret' = _find_source_directory(iterdir(arg.children), arg.prefix)
    /\ UNCHANGED <<bad, wdsfr, fs, i, item, run, err, log, tools, base, arg>>

SpecResolve == InitResolve /\ [][Resolve]_vars

(***************************************************************************)
(* File-map normalisation on its own: lists of up to MaxFiles names, dicts *)
(* of up to MaxFiles pairs, and values of other types.                     *)
(***************************************************************************)
FileNames == {<<"a">>, <<"b">>, <<"c">>}

Lists == UNION {[1..k -> FileNames] : k \in 0..MaxFiles}

Dicts ==
    {d \in UNION {[1..k -> FileNames \X FileNames] : k \in 0..MaxFiles} :
        \A k, l \in 1..Len(d) : k # l => d[k][1] # d[l][1]}

Others == {"NoneType", "int", "set", "tuple", "str"}

InitFilemap ==
    /\ pc = "call"
    /\ \/ \E items \in Lists : arg = PyList(items)
       \/ \E pairs \in Dicts : arg = PyDict(pairs)
       \/ \E type \in Others : arg = [type |-> type, val |-> <<>>]
    /\ ret = <<>>
    /\ fs = EmptyTree
    /\ Idle

\* Firmware._filemap(files)
Normalize ==
    /\ pc = "call"
    /\ pc' = "returned"
    /\ ret' = _filemap(arg)
    /\ UNCHANGED <<bad, wdsfr, fs, i, item, run, err, log, tools, base, arg>>

SpecFilemap == InitFilemap /\ [][Normalize]_vars

(***************************************************************************)
(* The symlink patch applied twice in succession to an output tree that    *)
(* holds the eight files of the Bluetooth source, and at each alternate    *)
(* name nothing, a regular file, a link or a directory (something at up   *)
(* to MaxLeftovers of the names).                                          *)
(***************************************************************************)
Leftovers == {"nothing", "file", "link", "directory"}

\* the tree with leftover[k] at the alternate name of file k
Seeded(leftover) ==
    LET at(k) == Join(base_path, alternate(bt_files[k]))
        K(kind) == {at(k) : k \in {l \in 1..Len(bt_files) : leftover[l] = kind}}
        canon == {Join(base_path, bt_files[k]) : k \in 1..Len(bt_files)}
    IN  [dirs  |-> Ancestors(base_path) \cup K("directory"),
         files |-> [p \in canon \cup K("file") |->
                      [SourceContent(p) EXCEPT !.of = "earlier"]],
         links |-> [p \in K("link") |-> <<"s","t","a","l","e">>]]

InitSymlink ==
    /\ pc = "call"
    /\ \E leftover \in [1..Len(bt_files) -> Leftovers] :
         /\ Cardinality({k \in 1..Len(bt_files) : leftover[k] # "nothing"}) <= MaxLeftovers
         /\ fs = Seeded(leftover)
    /\ arg = <<>>
    /\ ret = <<>>
    /\ Idle

\* patch_qca_bt_symlinks(log, args), a first time
SymlinkOnce ==
    /\ pc = "call"
    /\ LET o == patch_qca_bt_symlinks(fs)
       IN  /\ fs' = o.fs
           /\ err' = o.err
           /\ pc' = IF o.err = NoErr THEN "once" ELSE "failed"
           /\ ret' = IF o.err = NoErr THEN o.fs ELSE ret
    /\ UNCHANGED <<bad, wdsfr, i, item, run, log, tools, base, arg>>

\* patch_qca_bt_symlinks(log, args), a second time
SymlinkTwice ==
    /\ pc = "once"
    /\ LET o == patch_qca_bt_symlinks(fs)
       IN  /\ fs' = o.fs
           /\ err' = o.err
           /\ pc' = IF o.err = NoErr THEN "twice" ELSE "failed twice"
    /\ UNCHANGED <<bad, wdsfr, i, item, run, log, tools, base, arg, ret>>

SpecSymlink == InitSymlink /\ [][SymlinkOnce \/ SymlinkTwice]_vars

(***************************************************************************)
(* Vocabulary of the properties                                            *)
(***************************************************************************)
\* the catalogue as declared, constructed
Catalogue == sources(0)

\* where item k of source m is written
TargetOf(m, k) ==
    Join(Join(path_out, Catalogue[m].target_directory), Catalogue[m].files.val[k][2])

\* where item k of source m is read
OriginOf(m, k) ==
    Join(IF Catalogue[m].cls = "WindowsDriverFirmware"
         THEN _find_source_directory(iterdir(wdsfr), Catalogue[m].source)
         ELSE Catalogue[m].source,
         Catalogue[m].files.val[k][1])

Items(m) == 1..Len(Catalogue[m].files.val)

\* the file was written during this run of the script
Fresh(p) == p \in DOMAIN fs.files /\ fs.files[p].of = "this run"

\* item k of source m is in the output tree, byte for byte as at its origin
Current(m, k) ==
    /\ TargetOf(m, k) \in DOMAIN fs.files
    /\ fs.files[TargetOf(m, k)] = SourceContent(OriginOf(m, k))

\* source m has written to the output tree during this run
Materialized(m) == \E k \in Items(m) : Fresh(TargetOf(m, k))

\* the lines of the two get methods
GetLines == 86..116

\* the run is in its gather phase, or has failed in it
InGather == pc \in {"gather", "get"} \/ (pc = "failed" /\ err.line \in GetLines)

\* the sources whose names the gather phase has logged
Attempted == Len(log) - 1

SourceNames ==
    <<"pd-maps", "bluetooth", "gpu/base", "gpu/vendor", "wlan/vendor",
      "wlan/ath10k/board", "wlan/ath10k/firmware-5", "mcfg", "adsp/vendor",
      "cdsp/vendor", "mpss/vendor", "mpss/library">>

PatchNames == <<"venus", "ath10k/board-2.bin", "ath10k/firmware-5.bin", "qca/bt">>

\* what a run that reaches the end has logged
FullLog ==
    <<"retrieving base firmware files">> \o SourceNames
        \o <<"patching firmware files">> \o PatchNames \o <<"done!">>

IsPrefix(s, t) == Len(s) <= Len(t) /\ SubSeq(t, 1, Len(s)) = s

(***************************************************************************)
(* C1.  The gather phase is fail-fast and ordered: the sources are         *)
(* materialized in declaration order; once the materialization of source   *)
(* k has failed the run has stopped there, no source after k has written   *)
(* anything during this run, and the files of the sources before k are     *)
(* all in the output tree as they were copied.                             *)
(***************************************************************************)
C1_GatherFailFast ==
    /\ InGather =>
         /\ \A m \in 1..Attempted : log[m + 1] = SourceNames[m]
         /\ \A m \in 1..Len(Catalogue) : Materialized(m) => m <= Attempted
         /\ pc \in {"gather", "get"} => Attempted = IF pc = "get" THEN i ELSE i - 1
    /\ err.line \in GetLines =>
         /\ pc = "failed"
         /\ err.at = SourceNames[Attempted]
         /\ \A m \in 1..Len(Catalogue) : m > Attempted => ~Materialized(m)
         /\ \A m \in 1..(Attempted - 1) : \A k \in Items(m) : Current(m, k)

\* source 6 of 12 has failed after the five before it were materialized
C1_Witness ==
    /\ pc = "failed"
    /\ err.line = 96
    /\ err.at = "wlan/ath10k/board"
    /\ item = 7
    /\ \A m \in 1..5 : Materialized(m)

(***************************************************************************)
(* C2.  The patch phase runs only after the gather phase has completed:    *)
(* whenever a patch has been logged or the run is in its patch phase, all  *)
(* sources were materialized before, without a failure; a run that reaches *)
(* the end has applied every patch exactly once, in the order venus,       *)
(* ath10k/board-2.bin, ath10k/firmware-5.bin, qca/bt; and a run in which a *)
(* source failed has applied no patch.                                     *)
(***************************************************************************)
C2_PatchAfterGather ==
    /\ IsPrefix(log, FullLog)
    /\ pc = "patch" => IsPrefix(<<"retrieving base firmware files">> \o SourceNames
                                    \o <<"patching firmware files">>, log)
    /\ pc = "patch" /\ i = 1 => \A m \in 1..Len(Catalogue) : \A k \in Items(m) : Current(m, k)
    /\ pc = "done" => log = FullLog
    /\ err.line \in GetLines =>
         /\ \A k \in 1..Len(log) : \A p \in 1..Len(PatchNames) : log[k] # PatchNames[p]
         /\ tools = <<>>

\* a run has reached the end
C2_Witness == pc = "done" /\ run = 1 /\ Len(tools) = 3

(***************************************************************************)
(* C3.  A failure inside the calibration patch or the feature-flag patch   *)
(* (here: the external encoder exits non-zero) aborts the patch phase: the *)
(* run has failed, and the error names the patch.                          *)
(***************************************************************************)
C3_PatchFailureAborts ==
    \A k \in 1..Len(tools) :
        (tools[k].patch \in {"ath10k/board-2.bin", "ath10k/firmware-5.bin"}
            /\ tools[k].outcome # "0")
        => (pc = "failed" /\ err.at = tools[k].patch)

(***************************************************************************)
(* C4.  When no child of the repository root has the prefix of a local     *)
(* source, its get has failed with SourceNotFoundError at resolution time  *)
(* (lines 81-87): the loop of get is never reached with base None.         *)
(***************************************************************************)
C4_SourceNotFound ==
    base = None =>
        /\ pc = "failed"
        /\ err.class = "SourceNotFoundError"
        /\ err.line \in 81..87

(***************************************************************************)
(* C5.  Prefix resolution returns the first child, in iteration order,     *)
(* whose name starts with the prefix: the result is a child with the       *)
(* prefix and every child iterated before it is without it; only when no   *)
(* child has the prefix is the result None.                                *)
(***************************************************************************)
C5_FirstMatch ==
    pc = "returned" =>
        LET c == arg.children
            n == Len(arg.prefix)
            matches == {k \in 1..Len(c) :
                          /\ n <= Len(c[k])
                          /\ \A l \in 1..n : c[k][l] = arg.prefix[l]}
        IN  IF matches = {} THEN ret = None
            ELSE \E k \in matches :
                    /\ ret = Join(path_wdsfr, c[k])
                    /\ \A l \in 1..(k - 1) : l \notin matches

\* of two children with the prefix the one iterated first is returned,
\* behind a child without it
C5_Witness ==
    /\ pc = "returned"
    /\ arg.prefix = <<"a">>
    /\ arg.children = << <<"b">>, <<"a", "b">>, <<"a", "a">> >>
    /\ ret = Join(path_wdsfr, <<"a", "b">>)

(***************************************************************************)
(* C6.  File-map normalisation of a list is the identity mapping over the  *)
(* list: a dict whose keys are exactly the names of the list, each mapped  *)
(* to itself; normalisation of a dict is that dict, unchanged.             *)
(***************************************************************************)
C6_FilemapShapes ==
    pc = "returned" =>
        /\ arg.type = "list" =>
             /\ ret.type = "dict"
             /\ {ret.val[k][1] : k \in 1..Len(ret.val)} = {arg.val[k] : k \in 1..Len(arg.val)}
             /\ \A k \in 1..Len(ret.val) : ret.val[k][2] = ret.val[k][1]
             /\ \A k, l \in 1..Len(ret.val) : k # l => ret.val[k][1] # ret.val[l][1]
        /\ arg.type = "dict" => ret = arg

\* a dict that is not an identity mapping has been normalised
C6_Witness ==
    /\ pc = "returned"
    /\ arg.type = "dict"
    /\ Len(arg.val) = 2
    /\ arg.val[1][1] # arg.val[1][2]
    /\ ret.type = "dict"

(***************************************************************************)
(* C7.  A file map that is neither a list nor a dict fails with            *)
(* ConfigurationError and aborts the run at startup: nothing is logged,    *)
(* no source is materialized and no patch is applied.                      *)
(***************************************************************************)
C7_ConfigurationError ==
    bad # 0 =>
        /\ pc \in {"import", "failed"}
        /\ log = <<>>
        /\ tools = <<>>
        /\ \A p \in DOMAIN fs.files : ~Fresh(p)
        /\ pc = "failed" => err.class = "ConfigurationError"

(***************************************************************************)
(* C8.  The symlink patch is idempotent: on a tree that holds the eight    *)
(* '21' files under qca/, a second application in succession raises no     *)
(* error and leaves the tree as the first one left it, with exactly one    *)
(* link per '01' name, each pointing to its '21' file.                     *)
(***************************************************************************)
CanonicalNames ==
    <<<<"c","r","b","t","f","w","2","1",".","t","l","v">>, <<"c","r","n","v","2","1",".","b","3","c">>, <<"c","r","n","v","2","1",".","b","4","4">>, <<"c","r","n","v","2","1",".","b","4","5">>,
      <<"c","r","n","v","2","1",".","b","4","6">>, <<"c","r","n","v","2","1",".","b","4","7">>, <<"c","r","n","v","2","1",".","b","7","1">>, <<"c","r","n","v","2","1",".","b","i","n">>>>

AlternateNames ==
    <<<<"c","r","b","t","f","w","0","1",".","t","l","v">>, <<"c","r","n","v","0","1",".","b","3","c">>, <<"c","r","n","v","0","1",".","b","4","4">>, <<"c","r","n","v","0","1",".","b","4","5">>,
      <<"c","r","n","v","0","1",".","b","4","6">>, <<"c","r","n","v","0","1",".","b","4","7">>, <<"c","r","n","v","0","1",".","b","7","1">>, <<"c","r","n","v","0","1",".","b","i","n">>>>

InQca(name) == <<"o","u","t","/","q","c","a","/">> \o name

C8_SymlinkIdempotent ==
    /\ pc # "failed twice"
    /\ pc = "twice" =>
         /\ err = NoErr
         /\ fs = ret
         /\ DOMAIN fs.links = {InQca(AlternateNames[k]) : k \in 1..8}
         /\ \A k \in 1..8 :
              /\ fs.links[InQca(AlternateNames[k])] = CanonicalNames[k]
              /\ InQca(CanonicalNames[k]) \in DOMAIN fs.files
              /\ InQca(AlternateNames[k]) \notin DOMAIN fs.files
              /\ InQca(AlternateNames[k]) \notin fs.dirs

\* the patch has been applied twice
C8_Witness == pc = "twice" /\ DOMAIN fs.links # {}

(***************************************************************************)
(* C9.  Re-running recovers: in a run on the tree an earlier run has left, *)
(* no step fails because of what is in the tree (a failure is always a     *)
(* missing package or source file, a failed download, a tool that cannot   *)
(* be started or an invalid file map); every file gathered so far holds    *)
(* the current content of its origin; and a run in which nothing fails     *)
(* completes every gather and patch step.                                  *)
(***************************************************************************)
C9_RerunRecovers ==
    run >= 2 =>
        /\ pc = "failed" =>
             \/ err.line \in {62, 90, 135, 166, 187}
             \/ err.line = 96 /\ err.class = "FileNotFoundError"
             \/ err.line = 116 /\ err.class \in {"HTTPError", "ContentTooShortError"}
        /\ pc \in {"gather", "get"} =>
             /\ \A m \in 1..(i - 1) : \A k \in Items(m) : Current(m, k)
             /\ pc = "get" => \A k \in 1..(item - 1) : Current(i, k)
        /\ pc = "done" => log = FullLog /\ i = Len(patches) + 1

\* a re-run has completed on a tree that still holds a file of an earlier run
C9_Witness ==
    /\ run >= 2
    /\ pc = "done"
    /\ \E p \in DOMAIN fs.files : fs.files[p].of = "earlier"
    /\ DOMAIN fs.links # {}

(***************************************************************************)
(* C10.  Patch prerequisites are satisfied by list order: when a patch     *)
(* starts in a run whose external tools have all succeeded so far, every   *)
(* gathered file it reads is in the output tree.                           *)
(***************************************************************************)
Reads(p) ==
    CASE p = 1 -> {<<"o","u","t","/","q","c","o","m","/","m","s","f","t","/","s","u","r","f","a","c","e","/","p","r","o","-","x","-","s","q","2","/","q","c","v","s","s","8","1","8","0",".","m","b","n">>}
      [] p = 2 -> {<<"o","u","t","/","a","t","h","1","0","k","/","W","C","N","3","9","9","0","/","h","w","1",".","0","/","b","o","a","r","d","s","/","b","d","w","l","a","n",".","b","5","8">>}
      [] p = 3 -> {<<"o","u","t","/","a","t","h","1","0","k","/","W","C","N","3","9","9","0","/","h","w","1",".","0","/","f","i","r","m","w","a","r","e","-","5",".","b","i","n">>}
      [] p = 4 -> {InQca(CanonicalNames[k]) : k \in 1..8}

C10_Prerequisites ==
    (/\ pc = "patch"
     /\ i <= Len(patches)
     /\ \A k \in 1..Len(tools) : tools[k].outcome = "0")
    => \A p \in Reads(i) : p \in DOMAIN fs.files /\ Fresh(p)

\* the feature-flag patch is about to start after the calibration patch
\* has deleted the boards directory
C10_Witness ==
    /\ pc = "patch"
    /\ i = 3
    /\ \A k \in 1..Len(tools) : tools[k].outcome = "0"
    /\ <<"o","u","t","/","a","t","h","1","0","k","/","W","C","N","3","9","9","0","/","h","w","1",".","0","/","b","o","a","r","d","s">> \notin fs.dirs
    /\ <<"o","u","t","/","a","t","h","1","0","k","/","W","C","N","3","9","9","0","/","h","w","1",".","0","/","b","o","a","r","d","-","2",".","b","i","n">> \in DOMAIN fs.files

=============================================================================
